---- MODULE Spec2Model ----
(***************************************************************************)
(* A model of the specialist search engine of server/app.py: text          *)
(* normalization with its shared cache, the query validator, the cluster   *)
(* index built by load_data, cluster scoring, keyword weighting, the fast  *)
(* and the full filtering path, and the search_specialists handler.        *)
(*                                                                         *)
(* A Python str is a sequence of one-character strings.  A Python float    *)
(* score is an exact rational <<n, d>> with d > 0.  A dict is a sequence   *)
(* of <<key, value>> pairs in insertion order, which is the order Python   *)
(* iterates it in.                                                         *)
(***************************************************************************)
EXTENDS Integers, Sequences, FiniteSets, TLC

-----------------------------------------------------------------------------
(* Characters and the str methods the code uses.                           *)

LowerLetters == <<"a","b","c","d","e","f","g","h","i","j","k","l","m",
                  "n","o","p","q","r","s","t","u","v","w","x","y","z">>

UpperLetters == <<"A","B","C","D","E","F","G","H","I","J","K","L","M",
                  "N","O","P","Q","R","S","T","U","V","W","X","Y","Z">>

Digits == {"0","1","2","3","4","5","6","7","8","9"}

Whitespace == {" ", "\t"}

Range(s) == {s[i] : i \in DOMAIN s}

\* \w of the regular expressions: letters, digits and the underscore
IsWordChar(c) == c \in Range(LowerLetters) \cup Range(UpperLetters) \cup Digits \cup {"_"}

\* str.lower, one character
LowerChar(c) ==
    IF c \in Range(UpperLetters)
    THEN LowerLetters[CHOOSE i \in DOMAIN UpperLetters : UpperLetters[i] = c]
    ELSE c

\* str.lower
StrLower(s) == [i \in DOMAIN s |-> LowerChar(s[i])]

\* str.strip: the text from its first to its last character that is not whitespace
StrStrip(s) ==
    LET solid == {i \in DOMAIN s : s[i] \notin Whitespace}
    IN  IF solid = {} THEN <<>>
        ELSE SubSeq(s, CHOOSE i \in solid : \A j \in solid : i <= j,
                       CHOOSE i \in solid : \A j \in solid : j <= i)

\* the Python test  sub in s  on two strings
Contains(s, sub) ==
    \E i \in 0..(Len(s) - Len(sub)) : SubSeq(s, i + 1, i + Len(sub)) = sub

\* str.replace: left to right, occurrences that do not overlap; skip counts
\* the characters of an occurrence still to be passed over
StrReplace(s, old, new) ==
    LET st[i \in 0..Len(s)] ==
            IF i = 0 THEN [out |-> <<>>, skip |-> 0]
            ELSE LET p == st[i - 1] IN
                 IF p.skip > 0 THEN [out |-> p.out, skip |-> p.skip - 1]
                 ELSE IF i + Len(old) - 1 <= Len(s) /\ SubSeq(s, i, i + Len(old) - 1) = old
                      THEN [out |-> p.out \o new, skip |-> Len(old) - 1]
                      ELSE [out |-> Append(p.out, s[i]), skip |-> 0]
    IN  st[Len(s)].out

\* str.split(): the maximal runs of characters that are not whitespace
StrSplit(s) ==
    LET st[i \in 0..Len(s)] ==
            IF i = 0 THEN [words |-> <<>>, cur |-> <<>>]
            ELSE LET p == st[i - 1] IN
                 IF s[i] \in Whitespace
                 THEN [words |-> IF p.cur = <<>> THEN p.words ELSE Append(p.words, p.cur),
                       cur |-> <<>>]
                 ELSE [words |-> p.words, cur |-> Append(p.cur, s[i])]
        end == st[Len(s)]
    IN  IF end.cur = <<>> THEN end.words ELSE Append(end.words, end.cur)

\* regex_patterns['punctuation'].sub(" ", text)
PunctuationSub(s) ==
    [i \in DOMAIN s |-> IF IsWordChar(s[i]) \/ s[i] \in Whitespace THEN s[i] ELSE " "]

\* regex_patterns['whitespace'].sub(" ", text): one space for each run
WhitespaceSub(s) ==
    LET st[i \in 0..Len(s)] ==
            IF i = 0 THEN <<>>
            ELSE IF s[i] \notin Whitespace THEN Append(st[i - 1], s[i])
                 ELSE IF i > 1 /\ s[i - 1] \in Whitespace THEN st[i - 1]
                      ELSE Append(st[i - 1], " ")
    IN  st[Len(s)]

-----------------------------------------------------------------------------
(* normalize_text without the cache: lines 151-164.                        *)

Parkinson == <<"p","a","r","k","i","n","s","o","n">>
Alzheimer == <<"a","l","z","h","e","i","m","e","r">>
AposS == <<"'","s">>

Normalize(text) ==
    LET t0 == StrStrip(StrLower(text))
        t1 == StrReplace(t0, Parkinson \o AposS, Parkinson)
        t2 == StrReplace(t1, Parkinson \o <<"s">>, Parkinson)
        t3 == StrReplace(t2, Alzheimer \o AposS, Alzheimer)
        t4 == StrReplace(t3, Alzheimer \o <<"s">>, Alzheimer)
        t5 == StrReplace(t4, AposS, <<"s">>)
        t6 == StrReplace(t5, <<"'">>, <<>>)
        t7 == PunctuationSub(t6)
    IN  StrStrip(WhitespaceSub(t7))

-----------------------------------------------------------------------------
(* is_valid_medical_query: lines 32-65.                                    *)

invalid_terms ==
    { <<"s","k","i","b","i","d","i">>, <<"g","y","a","t","t">>,
      <<"s","i","g","m","a">>, <<"r","i","z","z">>, <<"o","h","i","o">>,
      <<"s","u","s">>, <<"a","m","o","g","u","s">>, <<"t","e","s","t">>,
      <<"a","s","d","f">>, <<"q","w","e","r","t","y">>, <<"1","2","3">>,
      <<"h","e","l","l","o">>, <<"h","i">>, <<"y","o">> }

Vowels == {"a","e","i","o","u"}

\* the character class [bcdfg-z] of the third pattern
ConsonantClass == {"b","c","d","f"} \cup {LowerLetters[i] : i \in 7..26}

RareLetters == {"q","x","z"}

\* re.search(r'(.)\1{3,}', s)
HasRepeat4(s) ==
    \E i \in 1..(Len(s) - 3) :
        s[i] # "\n" /\ s[i+1] = s[i] /\ s[i+2] = s[i] /\ s[i+3] = s[i]

\* re.search(r'^[aeiou]+$', s)
AllIn(s, class) == s # <<>> /\ \A i \in DOMAIN s : s[i] \in class

\* re.search(r'[qxz]{2,}', s)
HasRarePair(s) ==
    \E i \in 1..(Len(s) - 1) : s[i] \in RareLetters /\ s[i+1] \in RareLetters

is_valid_medical_query(query) ==
    LET query_lower == StrStrip(StrLower(query)) IN
    IF query = <<>> \/ Len(StrStrip(query)) < 3 THEN FALSE
    ELSE IF query_lower \in invalid_terms THEN FALSE
    ELSE IF 10 * Cardinality(Range(query_lower)) < 4 * Len(query_lower) THEN FALSE
    ELSE IF HasRepeat4(query_lower) THEN FALSE
    ELSE IF AllIn(query_lower, Vowels) THEN FALSE
    ELSE IF AllIn(query_lower, ConsonantClass) THEN FALSE
    ELSE IF HasRarePair(query_lower) THEN FALSE
    ELSE TRUE

-----------------------------------------------------------------------------
(* Scores: exact rationals <<n, d>>, d > 0, kept in lowest terms.          *)

RECURSIVE Gcd(_, _)
Gcd(a, b) == IF b = 0 THEN a ELSE Gcd(b, a % b)

Abs(x) == IF x < 0 THEN -x ELSE x

Rat(n, d) ==
    LET g == Gcd(Abs(n), d) IN IF g = 0 THEN <<0, 1>> ELSE <<n \div g, d \div g>>

RInt(n) == <<n, 1>>

\* float('nan'), and pd.isna
NaN == <<0, 0>>
IsNaN(x) == x[2] = 0

RAdd(a, b) == Rat(a[1] * b[2] + b[1] * a[2], a[2] * b[2])
RMul(a, b) == Rat(a[1] * b[1], a[2] * b[2])
RLess(a, b) == a[1] * b[2] < b[1] * a[2]
RMax(a, b) == IF RLess(a, b) THEN b ELSE a

Max(a, b) == IF a < b THEN b ELSE a
Min(a, b) == IF a < b THEN a ELSE b

\* list.sort(key=lambda x: x[1], reverse=True) on entries with a score:
\* stable, the larger score first.  InsertDesc puts x behind the entries
\* of a sorted list that score at least as much.
InsertDesc(sorted, x) ==
    LET k == Cardinality({i \in DOMAIN sorted : ~RLess(sorted[i].score, x.score)})
    IN  SubSeq(sorted, 1, k) \o <<x>> \o SubSeq(sorted, k + 1, Len(sorted))

SortDesc(s) ==
    LET st[i \in 0..Len(s)] == IF i = 0 THEN <<>> ELSE InsertDesc(st[i - 1], s[i])
    IN  st[Len(s)]

\* seq[:n] of Python, n of either sign
Prefix(s, n) ==
    IF n >= 0 THEN SubSeq(s, 1, Min(n, Len(s))) ELSE SubSeq(s, 1, Max(Len(s) + n, 0))

-----------------------------------------------------------------------------
(* The data files load_data reads, and the requests the server receives.   *)

Acne == <<"A","c","n","e">>
AcneCare == <<"A","c","n","e"," ","c","a","r","e">>
Eczema == <<"E","c","z","e","m","a">>
SkinCare == <<"S","k","i","n","-","C","a","r","e">>
Utah == <<"U","t","a","h">>
Ohio == <<"O","h","i","o">>
Orem == <<"O","r","e","m">>
Lima == <<"L","i","m","a">>

\* topic_keywords.json in two key orders
TopicsAscending ==
    << <<"0", <<Acne>>>>, <<"1", <<AcneCare, Eczema>>>>, <<"2", <<SkinCare>>>>,
       <<"-1", <<Acne, SkinCare>>>> >>

TopicsDescending ==
    << <<"-1", <<Acne, SkinCare>>>>, <<"2", <<SkinCare>>>>, <<"1", <<AcneCare, Eczema>>>>,
       <<"0", <<Acne>>>> >>

TopicCatalogues == {TopicsAscending, TopicsDescending}

Row(id, cluster, relevancy, state, city, rare, research, specialty) ==
    [id |-> id, topic_cluster |-> cluster, relevancy_score |-> relevancy,
     state |-> state, city |-> city, rare_diseases_treated |-> rare,
     research_interests |-> research, clinical_focus |-> <<>>, specialty |-> specialty]

AllRows ==
    << Row(0, 0, RInt(1), Utah, Orem, Acne, <<>>, <<>>),
       Row(1, 0, RInt(2), Ohio, Lima, <<>>, AcneCare, <<>>),
       Row(2, 0, RInt(6), Utah, Orem, Acne, <<>>, <<>>),
       Row(3, -1, RInt(4), Utah, Lima, <<>>, <<>>, SkinCare),
       Row(4, 1, NaN, Ohio, Lima, Eczema, <<>>, <<>>),
       Row(5, 2, Rat(1, 2), Utah, Orem, <<>>, SkinCare, <<>>),
       Row(6, 1, RInt(3), Utah, Lima, <<>>, <<>>, AcneCare) >>

NumRows == 6

\* the parquet file: the first NumRows records
ParquetRows == SubSeq(AllRows, 1, Min(NumRows, Len(AllRows)))

Queries ==
    { <<>>,
      <<"a","c","n","e">>,
      <<"A","c","n","e","!">>,
      <<"c","a","r","e"," ">>,
      <<"t","e","a">>,
      <<"t","e","s","t">>,
      <<"z","z","z","z">> }

Locations == { <<>>, <<"u","t","a","h">>, <<"O","h","i","o">> }

\* the limit parameter; DefaultLimit is the value of an absent one, line 504
DefaultLimit == 20
Limits == {-1, 0, 1, 2, DefaultLimit, 1000}

-----------------------------------------------------------------------------
(* The normalization of the texts above, computed once: Normalized(t) is   *)
(* Normalize(t) for every text t.                                          *)

RowTexts(r) == {r.state, r.city, r.rare_diseases_treated, r.research_interests,
                r.clinical_focus, r.specialty}

KnownTexts ==
    Queries \cup {StrStrip(q) : q \in Queries} \cup
    Locations \cup {StrStrip(l) : l \in Locations} \cup
    UNION {Range(c[i][2]) : i \in 1..4, c \in TopicCatalogues} \cup
    UNION {RowTexts(AllRows[i]) : i \in DOMAIN AllRows}

KnownNormal == [t \in KnownTexts |-> Normalize(t)]

Normalized(text) == IF text \in KnownTexts THEN KnownNormal[text] ELSE Normalize(text)

-----------------------------------------------------------------------------
(* normalize_text with the cache: lines 142-170.  nm is the cache as the   *)
(* caller finds it: a function from the cached texts to the stored values. *)

normalize_text(nm, text) == IF text \in DOMAIN nm THEN nm[text] ELSE Normalized(text)

-----------------------------------------------------------------------------
(* score_clusters_by_query: lines 172-231.  lookup is cluster_lookup, a    *)
(* sequence of [id, keywords, normalized_keywords] in insertion order;     *)
(* keyword_set is the set of the normalized keywords.                      *)

keyword_set(cluster_data) == Range(cluster_data.normalized_keywords)

\* lines 186-196: TRUE when the cluster is skipped without being scored
CheapReject(query_norm, query_words, cluster_data) ==
    /\ ~(query_words \cap keyword_set(cluster_data) # {} \/ query_norm \in keyword_set(cluster_data))
    /\ ~\E i \in DOMAIN cluster_data.normalized_keywords :
          \/ Contains(cluster_data.normalized_keywords[i], query_norm)
          \/ Contains(query_norm, cluster_data.normalized_keywords[i])

\* lines 202-221: what one keyword adds to the score of its cluster
KeywordScore(query_norm, query_words, keyword_norm) ==
    IF query_norm = keyword_norm THEN RInt(10)
    ELSE IF Contains(keyword_norm, query_norm) THEN RInt(7)
    ELSE IF Contains(query_norm, keyword_norm) THEN RInt(5)
    ELSE LET keyword_words == Range(StrSplit(keyword_norm))
             overlap == query_words \cap keyword_words
         IN  IF overlap # {}
             THEN Rat(Cardinality(overlap) * 2,
                      Max(Cardinality(query_words), Cardinality(keyword_words)))
             ELSE RInt(0)

SumKeywordScores(query_norm, query_words, kws) ==
    LET st[i \in 0..Len(kws)] ==
            IF i = 0 THEN RInt(0)
            ELSE RAdd(st[i - 1], KeywordScore(query_norm, query_words, kws[i]))
    IN  st[Len(kws)]

\* lines 183-221: the score of one cluster, 0 when it is skipped
ClusterScore(query_norm, query_words, cluster_data) ==
    IF CheapReject(query_norm, query_words, cluster_data) THEN RInt(0)
    ELSE SumKeywordScores(query_norm, query_words, cluster_data.normalized_keywords)

HighConfidence == 50

\* lines 223-224: whether a scored cluster is appended to cluster_scores
KeepCluster(score) == RLess(RInt(0), score)

\* lines 182-228: the loop over cluster_lookup, with its early termination
ScanClusters(query_norm, query_words, lookup) ==
    LET st[i \in 0..Len(lookup)] ==
            IF i = 0 THEN [out |-> <<>>, stopped |-> FALSE]
            ELSE LET p == st[i - 1] IN
                 IF p.stopped THEN p
                 ELSE LET score == ClusterScore(query_norm, query_words, lookup[i]) IN
                      IF KeepCluster(score)
                      THEN [out |-> Append(p.out, [id |-> lookup[i].id, score |-> score]),
                            stopped |-> RLess(RInt(HighConfidence), score)]
                      ELSE p
    IN  st[Len(lookup)].out

\* line 230 left out: the clusters stay in scan order
SortClusterScoresNone(cluster_scores) == cluster_scores

\* line 230
SortClusterScores(cluster_scores) == SortDesc(cluster_scores)

\* lines 177-231 on the normalized query
ScoreNormalized(query_norm, lookup) ==
    SortClusterScores(ScanClusters(query_norm, Range(StrSplit(query_norm)), lookup))

score_clusters_by_query(nm, query, lookup) ==
    ScoreNormalized(normalize_text(nm, query), lookup)

-----------------------------------------------------------------------------
(* load_data, lines 109-119: the cluster index built from topic_keywords,  *)
(* a sequence of <<cluster id string, keyword list>> in file order.        *)

\* int(cluster_id) on the id strings of the catalogues
IntOfKey(key) ==
    CASE key = "-1" -> -1
      [] key = "0" -> 0
      [] key = "1" -> 1
      [] key = "2" -> 2
      [] key = "3" -> 3

\* str(cluster_id), line 245
KeyOfInt(n) ==
    CASE n = -1 -> "-1"
      [] n = 0 -> "0"
      [] n = 1 -> "1"
      [] n = 2 -> "2"
      [] n = 3 -> "3"

\* line 113 without its test: every key of the catalogue is indexed
IndexedKeyAll(key) == TRUE

\* line 113
IndexedKey(key) == key # "-1"

\* cluster_lookup[k] = v: the value of an existing key is replaced in place
DictSet(d, k, v) ==
    IF \E i \in DOMAIN d : d[i].id = k
    THEN [i \in DOMAIN d |-> IF d[i].id = k THEN v ELSE d[i]]
    ELSE Append(d, v)

\* lines 111-119
BuildClusterLookup(topics) ==
    LET st[i \in 0..Len(topics)] ==
            IF i = 0 THEN <<>>
            ELSE LET key == topics[i][1]
                     keywords == topics[i][2]
                 IN  IF IndexedKey(key)
                     THEN DictSet(st[i - 1], IntOfKey(key),
                              [id |-> IntOfKey(key),
                               keywords |-> keywords,
                               normalized_keywords |->
                                   [j \in DOMAIN keywords |-> Normalized(keywords[j])]])
                     ELSE st[i - 1]
    IN  st[Len(topics)]

\* lines 128-131: the columns _norm_state and _norm_city
PreNormalize(rows) ==
    [i \in DOMAIN rows |->
        [id |-> rows[i].id, topic_cluster |-> rows[i].topic_cluster,
         relevancy_score |-> rows[i].relevancy_score,
         state |-> rows[i].state, city |-> rows[i].city,
         rare_diseases_treated |-> rows[i].rare_diseases_treated,
         research_interests |-> rows[i].research_interests,
         clinical_focus |-> rows[i].clinical_focus,
         specialty |-> rows[i].specialty,
         norm_state |-> Normalized(rows[i].state),
         norm_city |-> Normalized(rows[i].city)]]

-----------------------------------------------------------------------------
(* get_weighted_keywords: lines 233-282.  top_clusters is a prefix of the  *)
(* scored clusters; the result is the dict weighted_keywords, a sequence   *)
(* of [kw, weight] in insertion order.                                     *)

\* topic_keywords.get(str(cluster_id), []), line 245
TopicGet(topics, key) ==
    LET at == {i \in DOMAIN topics : topics[i][1] = key}
    IN  IF at = {} THEN <<>> ELSE topics[CHOOSE i \in at : \A j \in at : j <= i][2]

\* lines 252-261
KeywordSimilarity(query_norm, kw_norm) ==
    IF query_norm = kw_norm THEN RInt(1)
    ELSE IF Contains(kw_norm, query_norm) \/ Contains(query_norm, kw_norm) THEN Rat(8, 10)
    ELSE LET query_words == Range(StrSplit(query_norm))
             kw_words == Range(StrSplit(kw_norm))
             overlap == query_words \cap kw_words
         IN  IF overlap # {}
             THEN Rat(Cardinality(overlap),
                      Max(Cardinality(query_words), Cardinality(kw_words)))
             ELSE Rat(1, 10)

\* list.index(kw), 0-based
FirstIndex(seq, x) == (CHOOSE i \in DOMAIN seq : seq[i] = x /\ \A j \in 1..(i-1) : seq[j] # x) - 1

\* lines 277-280: weighted_keywords[kw] = max(old, final_weight)
MergeMax(wk, kw, w) ==
    IF \E i \in DOMAIN wk : wk[i].kw = kw
    THEN [i \in DOMAIN wk |->
            IF wk[i].kw = kw THEN [kw |-> kw, weight |-> RMax(wk[i].weight, w)] ELSE wk[i]]
    ELSE Append(wk, [kw |-> kw, weight |-> w])

\* lines 271-280 for the top keywords of one cluster
AddTopKeywords(wk, top_keywords, all_cluster_keywords, cluster_weight) ==
    LET st[i \in 0..Len(top_keywords)] ==
            IF i = 0 THEN wk
            ELSE LET kw == top_keywords[i].kw
                     position == FirstIndex(all_cluster_keywords, kw)
                     position_weight ==
                         Rat(10 * Len(all_cluster_keywords) - 3 * position,
                             10 * Len(all_cluster_keywords))
                     final_weight ==
                         RMul(RMul(cluster_weight, top_keywords[i].score), position_weight)
                 IN  MergeMax(st[i - 1], kw, final_weight)
    IN  st[Len(top_keywords)]

\* lines 266-268: the best third of the scored keywords, three at least
TopKeywords(keyword_scores) ==
    Prefix(SortDesc(keyword_scores), Max(3, Len(keyword_scores) \div 3))

\* lines 240-280: the clusters in rank order
WeightClusters(nm, top_clusters, topics, query_norm) ==
    LET st[r \in 0..Len(top_clusters)] ==
            IF r = 0 THEN <<>>
            ELSE LET cluster_rank == r - 1
                     cluster_weight == Rat(10 - cluster_rank, 10)
                     all_cluster_keywords == TopicGet(topics, KeyOfInt(top_clusters[r].id))
                     keyword_scores ==
                         [i \in DOMAIN all_cluster_keywords |->
                             [kw |-> all_cluster_keywords[i],
                              score |-> KeywordSimilarity(query_norm,
                                            normalize_text(nm, all_cluster_keywords[i]))]]
                 IN  AddTopKeywords(st[r - 1], TopKeywords(keyword_scores),
                                    all_cluster_keywords, cluster_weight)
    IN  st[Len(top_clusters)]

get_weighted_keywords(nm, top_clusters, topics, query) ==
    WeightClusters(nm, top_clusters, topics, normalize_text(nm, query))

\* the keywords get_weighted_keywords passes to normalize_text, in call order
WeightCalls(top_clusters, topics) ==
    LET st[r \in 0..Len(top_clusters)] ==
            IF r = 0 THEN <<>>
            ELSE st[r - 1] \o TopicGet(topics, KeyOfInt(top_clusters[r].id))
    IN  st[Len(top_clusters)]

-----------------------------------------------------------------------------
(* Helpers on the records of specialists_df.  A relevancy_score is a       *)
(* rational or NaN; a text field that is missing is the empty string.      *)

\* line 288
SimpleWords(words) == Len(words) <= 2 /\ \A i \in DOMAIN words : Len(words[i]) > 2

\* is_simple_query: lines 284-288
is_simple_query(nm, query) == SimpleWords(StrSplit(normalize_text(nm, query)))

\* Series.str.contains(location_norm, na=False) on the two normalized
\* columns, lines 308-311 and 392-395
LocationMask(row, location_norm) ==
    Contains(row.norm_state, location_norm) \/ Contains(row.norm_city, location_norm)

\* df[mask]: the rows whose id is in keep, in order
SelectRows(rows, keep) ==
    LET Kept(r) == r.id \in keep IN SelectSeq(rows, Kept)

\* round(score, 2): the nearest hundredth, a half to the even one
Round2(r) ==
    LET n == r[1] * 100
        q == n \div r[2]
        rem2 == 2 * (n % r[2])
    IN  IF rem2 > r[2] \/ (rem2 = r[2] /\ q % 2 = 1) THEN Rat(q + 1, 100) ELSE Rat(q, 100)

\* format_specialist_result: lines 326-360, the fields the ranking decides
format_specialist_result(row, score) ==
    [id |-> row.id,
     city |-> row.city,
     state |-> row.state,
     total_score |-> Round2(score),
     topic_cluster |-> row.topic_cluster]

RowById(rows, id) == rows[CHOOSE i \in DOMAIN rows : rows[i].id = id]

-----------------------------------------------------------------------------
(* filter_specialists_fast_path: lines 290-324.                            *)

\* lines 295-298: the clusters whose keyword_set holds the normalized query
MatchingClusters(query_norm, lookup) ==
    LET Hit(cluster_data) == query_norm \in keyword_set(cluster_data)
        hits == SelectSeq(lookup, Hit)
    IN  [i \in DOMAIN hits |-> hits[i].id]

\* lines 317-319
FastScore(row, matching_clusters) ==
    LET base_score == IF row.topic_cluster \in Range(Prefix(matching_clusters, 3))
                      THEN RInt(5) ELSE RInt(3)
    IN  IF IsNaN(row.relevancy_score) THEN base_score
        ELSE RAdd(base_score, RMul(row.relevancy_score, Rat(1, 2)))

\* line 316: filtered_df.head(max_results * 2)
FastCandidates(filtered, max_results) == Prefix(filtered, max_results * 2)

\* lines 304-312: the rows of the matching clusters, at the location if one is given
FastFiltered(nm, location, matching_clusters, rows) ==
    LET in_cluster == SelectRows(rows,
            {rows[i].id : i \in {j \in DOMAIN rows : rows[j].topic_cluster \in Range(matching_clusters)}})
    IN  IF location # <<>>
        THEN LET location_norm == normalize_text(nm, location)
             IN  SelectRows(in_cluster,
                     {in_cluster[i].id : i \in {j \in DOMAIN in_cluster :
                                                   LocationMask(in_cluster[j], location_norm)}})
        ELSE in_cluster

\* lines 315-324: the candidates scored, sorted and cut
FastRanked(filtered, matching_clusters, max_results) ==
    LET head == FastCandidates(filtered, max_results)
        results == SortDesc([i \in DOMAIN head |->
                       [id |-> head[i].id, score |-> FastScore(head[i], matching_clusters)]])
        top == Prefix(results, max_results)
    IN  [i \in DOMAIN top |->
            format_specialist_result(RowById(filtered, top[i].id), top[i].score)]

\* lines 300-324
FastFromClusters(nm, location, max_results, rows, matching_clusters) ==
    IF matching_clusters = <<>> THEN <<>>
    ELSE FastRanked(FastFiltered(nm, location, matching_clusters, rows),
                    matching_clusters, max_results)

filter_specialists_fast_path(nm, query, location, max_results, lookup, rows) ==
    FastFromClusters(nm, location, max_results, rows,
                     MatchingClusters(normalize_text(nm, query), lookup))

\* the texts the fast path passes to normalize_text, in call order
FastCalls(nm, query, location, lookup) ==
    <<query>> \o
    (IF MatchingClusters(normalize_text(nm, query), lookup) # <<>> /\ location # <<>>
     THEN <<location>> ELSE <<>>)

-----------------------------------------------------------------------------
(* filter_specialists: lines 362-495.                                      *)

TopClusters == 3
MaxIterations == 2000

profile_fields ==
    << [name |-> "rare_diseases_treated", weight |-> Rat(15, 10)],
       [name |-> "research_interests", weight |-> Rat(12, 10)],
       [name |-> "clinical_focus", weight |-> Rat(10, 10)],
       [name |-> "specialty", weight |-> Rat(8, 10)] >>

\* line 414: sort_values('relevancy_score', ascending=False, na_position='last'),
\* rows of equal relevancy in their original order
SortByRelevancy(rows) ==
    LET valued == SelectRows(rows, {rows[i].id : i \in {j \in DOMAIN rows : ~IsNaN(rows[j].relevancy_score)}})
        missing == SelectRows(rows, {rows[i].id : i \in {j \in DOMAIN rows : IsNaN(rows[j].relevancy_score)}})
        sorted == SortDesc([i \in DOMAIN valued |->
                               [score |-> valued[i].relevancy_score, row |-> valued[i]]])
    IN  [i \in DOMAIN sorted |-> sorted[i].row] \o missing

\* lines 420-430: cluster bonus plus scaled relevancy
RowBaseScore(row, top_clusters) ==
    LET ranks == {i \in DOMAIN top_clusters : top_clusters[i].id = row.topic_cluster}
        bonus == IF ranks # {}
                 THEN LET cluster_rank == (CHOOSE i \in ranks : \A j \in ranks : i <= j) - 1
                      IN  RInt((5 - cluster_rank) * 2)
                 ELSE RInt(0)
    IN  IF IsNaN(row.relevancy_score) THEN bonus
        ELSE RAdd(bonus, RMul(row.relevancy_score, Rat(1, 2)))

\* lines 456-465: one weighted keyword against one field; p is the loop
\* state [score, calls, stopped] the keyword finds
KeywordStep(p, field_text, field_weight, keyword, keyword_norm) ==
    LET match_quality == IF keyword_norm = field_text THEN RInt(1) ELSE Rat(8, 10)
        contribution == RMul(RMul(keyword.weight, field_weight), match_quality)
        field_score == RAdd(p.score, contribution)
    IN  IF p.stopped THEN p
        ELSE IF Contains(field_text, keyword_norm)
             THEN [score |-> field_score, calls |-> Append(p.calls, keyword.kw),
                   stopped |-> RLess(RInt(5), field_score)]
             ELSE [score |-> p.score, calls |-> Append(p.calls, keyword.kw),
                   stopped |-> FALSE]

\* lines 454-465: one field against the weighted keywords, with the break at 5.0
FieldLoop(nm, field_text, field_weight, wk, calls) ==
    LET st[i \in 0..Len(wk)] ==
            IF i = 0 THEN [score |-> RInt(0), calls |-> calls, stopped |-> FALSE]
            ELSE KeywordStep(st[i - 1], field_text, field_weight, wk[i],
                             normalize_text(nm, wk[i].kw))
    IN  st[Len(wk)]

\* line 467: the field's score added to the row's
FieldScored(p, f) == [score |-> RAdd(p.score, f.score), calls |-> f.calls]

\* lines 445-467: one profile field of a row; p is the loop state [score, calls]
FieldStep(nm, p, field_weight, wk, field_value, field_text) ==
    IF field_value = <<>> THEN p
    ELSE IF field_text = <<>>
         THEN [score |-> p.score, calls |-> Append(p.calls, field_value)]
         ELSE FieldScored(p, FieldLoop(nm, field_text, field_weight, wk,
                                       Append(p.calls, field_value)))

\* lines 444-467: the profile fields of one row, from its base score
FieldsLoop(nm, row, wk, base, calls) ==
    LET st[i \in 0..Len(profile_fields)] ==
            IF i = 0 THEN [score |-> base, calls |-> calls]
            ELSE FieldStep(nm, st[i - 1], profile_fields[i].weight, wk,
                           row[profile_fields[i].name],
                           normalize_text(nm, row[profile_fields[i].name]))
    IN  st[Len(profile_fields)]

\* lines 472-474: the early exit after a row was appended
EarlyExit(specialist_scores, score, max_results) ==
    Len(specialist_scores) >= max_results * 2 /\ RLess(score, Rat(3, 2))

\* lines 469-474: a scored row is appended when its score is positive
RowScored(p, row, f, max_results) ==
    LET appended == Append(p.scores, [id |-> row.id, score |-> f.score])
    IN  IF RLess(RInt(0), f.score)
        THEN [scores |-> appended, calls |-> f.calls,
              stopped |-> EarlyExit(appended, f.score, max_results)]
        ELSE [scores |-> p.scores, calls |-> f.calls, stopped |-> FALSE]

\* lines 420-474: one candidate row; p is the loop state [scores, calls, stopped]
RowStep(nm, p, row, wk, max_results, base) ==
    IF p.stopped \/ RLess(base, Rat(1, 2)) THEN p
    ELSE RowScored(p, row, FieldsLoop(nm, row, wk, base, p.calls), max_results)

\* lines 416-474: the loop over the candidate rows
RowLoop(nm, rows, top_clusters, wk, max_results, calls) ==
    LET st[i \in 0..Len(rows)] ==
            IF i = 0 THEN [scores |-> <<>>, calls |-> calls, stopped |-> FALSE]
            ELSE RowStep(nm, st[i - 1], rows[i], wk, max_results,
                         RowBaseScore(rows[i], top_clusters))
    IN  st[Len(rows)]

\* lines 388-403 with the location branch lost: candidates by cluster alone
FullFilteredNoLocation(nm, location, top_clusters, rows) ==
    LET cluster_ids == {top_clusters[i].id : i \in DOMAIN top_clusters}
    IN  SelectRows(rows, {rows[i].id : i \in {j \in DOMAIN rows :
                                                rows[j].topic_cluster \in cluster_ids}})

\* lines 388-403: the candidate rows of the full path
FullFiltered(nm, location, top_clusters, rows) ==
    IF location # <<>>
    THEN LET location_norm == normalize_text(nm, location)
         IN  SelectRows(rows, {rows[i].id : i \in {j \in DOMAIN rows :
                                                     LocationMask(rows[j], location_norm)}})
    ELSE LET cluster_ids == {top_clusters[i].id : i \in DOMAIN top_clusters}
         IN  SelectRows(rows, {rows[i].id : i \in {j \in DOMAIN rows :
                                                     rows[j].topic_cluster \in cluster_ids}})

\* lines 476-495: the scored rows sorted, cut and formatted
FullFormat(filtered, loop, cluster_scores, max_results) ==
    LET top == Prefix(SortDesc(loop.scores), max_results)
    IN  [results |-> [i \in DOMAIN top |->
                        format_specialist_result(RowById(filtered, top[i].id), top[i].score)],
         calls |-> loop.calls, path |-> "full", cluster_scores |-> cluster_scores]

\* lines 405-495: filtered is filtered_df after the sort of line 414
FullRanked(nm, max_results, cluster_scores, top_clusters, wk, filtered, calls) ==
    FullFormat(filtered,
               RowLoop(nm, Prefix(filtered, Min(Len(filtered), MaxIterations)),
                       top_clusters, wk, max_results, calls),
               cluster_scores, max_results)

\* lines 381-495
FullFromTop(nm, query, location, max_results, topics, rows, calls, cluster_scores, top_clusters) ==
    IF top_clusters = <<>>
    THEN [results |-> <<>>, calls |-> Append(calls, query), path |-> "full",
          cluster_scores |-> cluster_scores]
    ELSE FullRanked(nm, max_results, cluster_scores, top_clusters,
                    get_weighted_keywords(nm, top_clusters, topics, query),
                    SortByRelevancy(FullFiltered(nm, location, top_clusters, rows)),
                    calls \o <<query, query>> \o WeightCalls(top_clusters, topics) \o
                        (IF location # <<>> THEN <<location>> ELSE <<>>))

\* line 379
FullFromScores(nm, query, location, max_results, topics, rows, calls, cluster_scores) ==
    FullFromTop(nm, query, location, max_results, topics, rows, calls, cluster_scores,
                Prefix(cluster_scores, TopClusters))

\* lines 377-495: the full path; calls are the normalize_text calls made before it
FullPath(nm, query, location, max_results, topics, lookup, rows, calls) ==
    FullFromScores(nm, query, location, max_results, topics, rows, calls,
                   score_clusters_by_query(nm, query, lookup))

\* lines 372-383: the fast path's results if it has any, else the full path
FastOrFull(nm, query, location, max_results, topics, lookup, rows, results, calls) ==
    IF results # <<>>
    THEN [results |-> results, calls |-> calls, path |-> "fast", cluster_scores |-> <<>>]
    ELSE FullPath(nm, query, location, max_results, topics, lookup, rows, calls)

\* lines 370-371: the fast path is tried on a simple query when there is an index
TryFast(nm, query, location, max_results, topics, lookup, rows, try_fast) ==
    FastOrFull(nm, query, location, max_results, topics, lookup, rows,
               IF try_fast
               THEN filter_specialists_fast_path(nm, query, location, max_results, lookup, rows)
               ELSE <<>>,
               IF try_fast
               THEN <<query>> \o FastCalls(nm, query, location, lookup)
               ELSE <<query>>)

\* df and topics are [is_none, rows] and [is_none, items]
filter_specialists(nm, query, location, max_results, df, topics, lookup) ==
    IF df.is_none \/ topics.is_none
    THEN [results |-> <<>>, calls |-> <<>>, path |-> "none", cluster_scores |-> <<>>]
    ELSE TryFast(nm, query, location, max_results, topics.items, lookup, df.rows,
                 is_simple_query(nm, query) /\ lookup # <<>>)

-----------------------------------------------------------------------------
(* search_specialists: lines 497-549.  The arguments are the raw request   *)
(* parameters q, location and limit (an integer).  The value is the JSON   *)
(* body with its status, and what the engine did on the way.               *)

HardCap == 50

\* line 504
ClampLimit(limit) == Min(limit, HardCap)

\* lines 515-523 without the invalid_query key
InvalidQueryBodyNoFlag(query, location) ==
    [success |-> TRUE, query |-> query, location |-> location,
     total_results |-> 0, results |-> <<>>]

\* lines 515-523
InvalidQueryBody(query, location) ==
    [success |-> TRUE, query |-> query, location |-> location, invalid_query |-> TRUE,
     total_results |-> 0, results |-> <<>>]

\* lines 535-541; an empty location stands for the None of  location or None
ResultsBody(query, location, results) ==
    [success |-> TRUE, query |-> query, location |-> location,
     total_results |-> Len(results), results |-> results]

\* lines 507-511 and 526-530
ErrorBody(error) == [success |-> FALSE, error |-> error, results |-> <<>>]

NoEngine == [path |-> "none", calls |-> <<>>, cluster_scores |-> <<>>]

\* lines 532-541: the answer built from what filter_specialists returned
EngineAnswer(query, location, max_results, e) ==
    [status |-> 200, body |-> ResultsBody(query, location, e.results),
     max_results |-> max_results,
     engine |-> [path |-> e.path, calls |-> e.calls, cluster_scores |-> e.cluster_scores]]

search_specialists(nm, q, loc, limit, df, topics, lookup) ==
    LET query == StrStrip(q)
        location == StrStrip(loc)
        max_results == ClampLimit(limit)
    IN  IF query = <<>>
        THEN [status |-> 400, body |-> ErrorBody("Query parameter q is required"),
              max_results |-> max_results, engine |-> NoEngine]
        ELSE IF ~is_valid_medical_query(query)
        THEN [status |-> 200, body |-> InvalidQueryBody(query, location),
              max_results |-> max_results, engine |-> NoEngine]
        ELSE IF df.is_none
        THEN [status |-> 500, body |-> ErrorBody("Specialist data not loaded"),
              max_results |-> max_results, engine |-> NoEngine]
        ELSE EngineAnswer(query, location, max_results,
                 filter_specialists(nm, query, location, max_results, df, topics, lookup))

-----------------------------------------------------------------------------
(* The shared cache: lines 148-149 and 166-168.  The cache holds the texts *)
(* of the model as a function, and cache_other counts its other entries.   *)

CacheCap == 10000

CacheLen(cache, other) == Cardinality(DOMAIN cache) + other

\* line 167
CacheHasRoom(cache, other) == CacheLen(cache, other) < CacheCap

\* line 168 with the wrong variable on its right-hand side
CacheEntryRaw(original_text, text) == [key |-> original_text, value |-> original_text]

\* line 168: the entry written for a text that was normalized
CacheEntry(original_text, text) == [key |-> original_text, value |-> text]

\* line 168
CacheWrite(cache, original_text, text) ==
    LET e == CacheEntry(original_text, text)
    IN  [t \in DOMAIN cache \cup {e.key} |-> IF t = e.key THEN e.value ELSE cache[t]]

\* lines 166-168
CacheStore(cache, other, original_text, text) ==
    IF CacheHasRoom(cache, other) THEN CacheWrite(cache, original_text, text) ELSE cache

\* one call of normalize_text after another: the cache they leave behind
CacheAfter(cache, other, calls) ==
    LET st[i \in 0..Len(calls)] ==
            IF i = 0 THEN cache
            ELSE LET p == st[i - 1] IN
                 IF calls[i] \in DOMAIN p THEN p
                 ELSE CacheStore(p, other, calls[i], Normalized(calls[i]))
    IN  st[Len(calls)]

-----------------------------------------------------------------------------
(* The state of the process.                                               *)

VARIABLES
    specialists_df,          \* [is_none, rows]
    topic_keywords,          \* [is_none, items]
    cluster_lookup,          \* sequence of [id, keywords, normalized_keywords]
    normalized_text_cache,   \* function: cached text -> stored value
    cache_other,             \* number of cached texts outside the model
    phase,                   \* "startup" until the server accepts requests
    served,                  \* number of requests answered
    request,                 \* the request answered last
    response,                \* and the answer of search_specialists to it
    threads,                 \* the requests in progress on concurrent threads
    call                     \* one function called on its own: [fn, args, results, again, step]

vars == <<specialists_df, topic_keywords, cluster_lookup, normalized_text_cache,
          cache_other, phase, served, request, response, threads, call>>

NoRequest == [q |-> <<>>, location |-> <<>>, limit |-> 0]
NoResponse == [status |-> 0, body |-> ErrorBody("none"), max_results |-> 0, engine |-> NoEngine]

NumThreads == 2
Threads == 1..NumThreads
IdleThread == [pc |-> "idle", request |-> NoRequest, calls |-> <<>>, seen |-> <<>>,
               text |-> <<>>, response |-> NoResponse]

\* no function is called on its own
NoCall == [fn |-> "none", args |-> <<>>, use_cache |-> FALSE, results |-> <<>>,
           again |-> <<>>, step |-> 0]

Init ==
    /\ specialists_df = [is_none |-> TRUE, rows |-> <<>>]
    /\ topic_keywords = [is_none |-> TRUE, items |-> <<>>]
    /\ cluster_lookup = <<>>
    /\ normalized_text_cache = <<>>
    /\ cache_other = 0
    /\ phase = "startup"
    /\ served = 0
    /\ request = NoRequest
    /\ response = NoResponse
    /\ threads = [t \in Threads |-> IdleThread]
    /\ call = NoCall

-----------------------------------------------------------------------------
(* Startup: lines 652-660 run load_data and then the server.               *)

\* lines 86-88: no parquet file is found
LoadDataNoParquet ==
    /\ phase = "startup"
    /\ phase' = "serving"
    /\ UNCHANGED <<call, specialists_df, topic_keywords, cluster_lookup, normalized_text_cache,
                   cache_other, served, request, response, threads>>

\* lines 83, 98-99, 138-140: the parquet file is read, json.load raises
LoadDataTopicsUnreadable ==
    /\ phase = "startup"
    /\ specialists_df' = [is_none |-> FALSE, rows |-> ParquetRows]
    /\ phase' = "serving"
    /\ UNCHANGED <<call, topic_keywords, cluster_lookup, normalized_text_cache, cache_other,
                   served, request, response, threads>>

\* lines 102-104: the parquet file is read, no topic file is found
LoadDataNoTopics ==
    /\ phase = "startup"
    /\ specialists_df' = [is_none |-> FALSE, rows |-> PreNormalize(ParquetRows)]
    /\ topic_keywords' = [is_none |-> FALSE, items |-> <<>>]
    /\ cluster_lookup' = <<>>
    /\ phase' = "serving"
    /\ UNCHANGED <<call, normalized_text_cache, cache_other, served, request, response, threads>>

\* lines 67-136: both files are read and the indexes are built
LoadData ==
    /\ phase = "startup"
    /\ \E topics \in TopicCatalogues :
          /\ topic_keywords' = [is_none |-> FALSE, items |-> topics]
          /\ cluster_lookup' = BuildClusterLookup(topics)
    /\ specialists_df' = [is_none |-> FALSE, rows |-> PreNormalize(ParquetRows)]
    /\ phase' = "serving"
    /\ UNCHANGED <<call, normalized_text_cache, cache_other, served, request, response, threads>>

-----------------------------------------------------------------------------
(* One request handled from start to end with no other request running.    *)

MaxRequests == 2

\* the request answered with r, and the cache as its normalize_text calls leave it
Answer(q, loc, limit, r) ==
    /\ request' = [q |-> q, location |-> loc, limit |-> limit]
    /\ response' = r
    /\ normalized_text_cache' = CacheAfter(normalized_text_cache, cache_other, r.engine.calls)

SearchSpecialists ==
    /\ phase = "serving"
    /\ served < MaxRequests
    /\ \A t \in Threads : threads[t].pc = "idle"
    /\ \E q \in Queries, loc \in Locations, limit \in Limits :
          Answer(q, loc, limit,
                 search_specialists(normalized_text_cache, q, loc, limit,
                                    specialists_df, topic_keywords, cluster_lookup))
    /\ served' = served + 1
    /\ UNCHANGED <<call, specialists_df, topic_keywords, cluster_lookup, cache_other, phase, threads>>

Next ==
    \/ LoadDataNoParquet
    \/ LoadDataTopicsUnreadable
    \/ LoadDataNoTopics
    \/ LoadData
    \/ SearchSpecialists

Spec == Init /\ [][Next]_vars

-----------------------------------------------------------------------------
(* Requests on concurrent threads.  A thread runs search_specialists; its  *)
(* steps on shared state are its calls of normalize_text, one after the    *)
(* other, and a call is three steps: the lookup of lines 148-164, the test *)
(* of line 167 and the write of line 168.  seen holds what normalize_text  *)
(* returned to the thread, and the thread's answer is computed from it.    *)

ConcRequests ==
    { [q |-> <<"a","c","n","e">>, location |-> <<"O","h","i","o">>, limit |-> 1],
      [q |-> <<"c","a","r","e"," ">>, location |-> <<"u","t","a","h">>, limit |-> 1],
      [q |-> <<"t","e","a">>, location |-> <<>>, limit |-> DefaultLimit] }

\* the cache entries earlier requests left behind
CacheFillings == {0, CacheCap - 2, CacheCap - 1, CacheCap}

InitConc ==
    /\ \E topics \in TopicCatalogues :
          /\ topic_keywords = [is_none |-> FALSE, items |-> topics]
          /\ cluster_lookup = BuildClusterLookup(topics)
    /\ specialists_df = [is_none |-> FALSE, rows |-> PreNormalize(ParquetRows)]
    /\ normalized_text_cache = <<>>
    /\ cache_other \in CacheFillings
    /\ phase = "serving"
    /\ served = 0
    /\ request = NoRequest
    /\ response = NoResponse
    /\ threads = [t \in Threads |-> IdleThread]
    /\ call = NoCall

Returned(th, value) ==
    [th EXCEPT !.pc = "lookup",
               !.calls = Tail(th.calls),
               !.seen = [x \in DOMAIN th.seen \cup {Head(th.calls)} |->
                            IF x = Head(th.calls) THEN value ELSE th.seen[x]],
               !.text = <<>>]

ThreadStart(t) ==
    /\ phase = "serving"
    /\ threads[t].pc = "idle"
    /\ \E r \in ConcRequests :
          threads' = [threads EXCEPT ![t] =
              [IdleThread EXCEPT
                  !.pc = "lookup",
                  !.request = r,
                  !.calls = search_specialists(<<>>, r.q, r.location, r.limit, specialists_df,
                                               topic_keywords, cluster_lookup).engine.calls]]
    /\ UNCHANGED <<call, specialists_df, topic_keywords, cluster_lookup, normalized_text_cache,
                   cache_other, phase, served, request, response>>

\* lines 148-164: a hit returns the stored value, a miss normalizes the text
NormalizeLookup(t) ==
    /\ threads[t].pc = "lookup"
    /\ threads[t].calls # <<>>
    /\ LET text == Head(threads[t].calls) IN
       threads' = [threads EXCEPT ![t] =
           IF text \in DOMAIN normalized_text_cache
           THEN Returned(threads[t], normalized_text_cache[text])
           ELSE [threads[t] EXCEPT !.pc = "room", !.text = Normalized(text)]]
    /\ UNCHANGED <<call, specialists_df, topic_keywords, cluster_lookup, normalized_text_cache,
                   cache_other, phase, served, request, response>>

\* line 167
NormalizeCheckRoom(t) ==
    /\ threads[t].pc = "room"
    /\ threads' = [threads EXCEPT ![t] =
           IF CacheHasRoom(normalized_text_cache, cache_other)
           THEN [threads[t] EXCEPT !.pc = "store"]
           ELSE Returned(threads[t], threads[t].text)]
    /\ UNCHANGED <<call, specialists_df, topic_keywords, cluster_lookup, normalized_text_cache,
                   cache_other, phase, served, request, response>>

\* lines 168-170
NormalizeStore(t) ==
    /\ threads[t].pc = "store"
    /\ normalized_text_cache' =
           CacheWrite(normalized_text_cache, Head(threads[t].calls), threads[t].text)
    /\ threads' = [threads EXCEPT ![t] = Returned(threads[t], threads[t].text)]
    /\ UNCHANGED <<call, specialists_df, topic_keywords, cluster_lookup, cache_other, phase,
                   served, request, response>>

\* the handler returns its answer
ThreadFinish(t) ==
    /\ threads[t].pc = "lookup"
    /\ threads[t].calls = <<>>
    /\ threads' = [threads EXCEPT ![t] =
           [threads[t] EXCEPT
               !.pc = "done",
               !.response = search_specialists(threads[t].seen, threads[t].request.q,
                                threads[t].request.location, threads[t].request.limit,
                                specialists_df, topic_keywords, cluster_lookup)]]
    /\ UNCHANGED <<call, specialists_df, topic_keywords, cluster_lookup, normalized_text_cache,
                   cache_other, phase, served, request, response>>

NextConc ==
    \E t \in Threads :
        \/ ThreadStart(t)
        \/ NormalizeLookup(t)
        \/ NormalizeCheckRoom(t)
        \/ NormalizeStore(t)
        \/ ThreadFinish(t)

SpecConc == InitConc /\ [][NextConc]_vars

-----------------------------------------------------------------------------
(* One function called on its own, once, on an argument list drawn when    *)
(* the state is set up.  call.args holds the texts handed over one after   *)
(* the other, call.results what came back, call.again what normalize_text  *)
(* returns when it is handed its own results.                              *)

Huntington == <<"h","u","n","t","i","n","g","t","o","n">>
Crohn == <<"c","r","o","h","n">>
Eponyms == {Parkinson, Alzheimer, Huntington, Crohn}

\* str.upper, one character
UpperChar(c) ==
    IF c \in Range(LowerLetters)
    THEN UpperLetters[CHOOSE i \in DOMAIN LowerLetters : LowerLetters[i] = c]
    ELSE c

\* str.upper
StrUpper(s) == [i \in DOMAIN s |-> UpperChar(s[i])]

\* str.capitalize on a lower-case word
StrCapitalize(s) == [i \in DOMAIN s |-> IF i = 1 THEN UpperChar(s[i]) ELSE s[i]]

\* the pieces the texts handed to normalize_text are put together from
NormalizeParts == {Parkinson, StrCapitalize(Alzheimer), <<"s">>, AposS, <<" ">>, <<"!">>, <<"x">>}

MaxParts == 3

\* the texts of at most n pieces
TextsOfParts(n) ==
    LET st[i \in 0..n] ==
            IF i = 0 THEN {<<>>}
            ELSE LET p == st[i - 1] IN p \cup {t \o part : t \in p, part \in NormalizeParts}
    IN  st[n]

\* an eponym in its three forms, in the same casing and the same surroundings
Forms(before, word, after) ==
    <<before \o word \o AposS \o after, before \o word \o <<"s">> \o after, before \o word \o after>>

\* the eponyms in lower case, capitalized and in upper case, alone and inside a text
EponymForms ==
    {Forms(b, w, a) : b \in {<<>>, <<"m","y"," ">>},
                      w \in UNION {{T, StrCapitalize(T), StrUpper(T)} : T \in Eponyms},
                      a \in {<<>>, <<" ","x">>}}

\* the characters the queries handed to is_valid_medical_query are made of
QueryAlphabet == {"a", "o", "u", "g", "t", "q", " ", "G"}

MaxQueryLen == 4

\* the strings of at most n characters
StringsUpTo(n) ==
    LET st[i \in 0..n] ==
            IF i = 0 THEN {<<>>}
            ELSE LET p == st[i - 1] IN p \cup {Append(t, c) : t \in p, c \in QueryAlphabet}
    IN  st[n]

\* the queries handed to score_clusters_by_query
ScoreQueries ==
    Queries \cup { <<"c","a","r","e"," ","a","c","n","e">>, <<"s","k","i","n"," ","a","c","n","e">>,
                   <<"E","c","z","e","m","a">>, <<"s","k","i","n">> }

FirstCall(fn, args, use_cache) ==
    [fn |-> fn, args |-> args, use_cache |-> use_cache, results |-> <<>>, again |-> <<>>,
     step |-> 0]

\* the calls that are made; is_valid_medical_query is also handed the deny list
Calls ==
    {FirstCall("normalize_text", <<t>>, u) : t \in TextsOfParts(MaxParts), u \in BOOLEAN} \cup
    {FirstCall("normalize_text", f, u) : f \in EponymForms, u \in BOOLEAN} \cup
    {FirstCall("is_valid_medical_query", <<q>>, FALSE) : q \in StringsUpTo(MaxQueryLen) \cup invalid_terms} \cup
    {FirstCall("score_clusters_by_query", <<q>>, TRUE) : q \in ScoreQueries}

\* the cache entries left behind before the call
CallFillings == {0, CacheCap}

InitCall ==
    /\ \E topics \in TopicCatalogues :
          /\ topic_keywords = [is_none |-> FALSE, items |-> topics]
          /\ cluster_lookup = BuildClusterLookup(topics)
    /\ specialists_df = [is_none |-> FALSE, rows |-> PreNormalize(ParquetRows)]
    /\ normalized_text_cache = <<>>
    /\ cache_other \in CallFillings
    /\ phase = "serving"
    /\ served = 0
    /\ request = NoRequest
    /\ response = NoResponse
    /\ threads = [t \in Threads |-> IdleThread]
    /\ call \in Calls

\* lines 142-170 with the use_cache parameter: what one call returns
NormalizeReturn(cache, text, use_cache) ==
    IF use_cache THEN normalize_text(cache, text) ELSE Normalize(text)

\* lines 166-168 with the use_cache parameter: the cache one call leaves behind
NormalizeCache(cache, other, text, use_cache) ==
    IF use_cache THEN CacheAfter(cache, other, <<text>>) ELSE cache

\* normalize_text on each text of a list in turn
NormalizeEach(cache, other, texts, use_cache) ==
    LET st[i \in 0..Len(texts)] ==
            IF i = 0 THEN [cache |-> cache, out |-> <<>>]
            ELSE LET p == st[i - 1] IN
                 [cache |-> NormalizeCache(p.cache, other, texts[i], use_cache),
                  out |-> Append(p.out, NormalizeReturn(p.cache, texts[i], use_cache))]
    IN  st[Len(texts)]

\* the outcome of NormalizeEach stored: the returned texts in call.results or call.again
NormalizeDone(done, into_again) ==
    /\ call' = [call EXCEPT !.results = IF into_again THEN call.results ELSE done.out,
                            !.again = IF into_again THEN done.out ELSE <<>>,
                            !.step = call.step + 1]
    /\ normalized_text_cache' = done.cache

CallNormalizeText ==
    /\ call.fn = "normalize_text"
    /\ call.step = 0
    /\ NormalizeDone(NormalizeEach(normalized_text_cache, cache_other, call.args, call.use_cache),
                     FALSE)
    /\ UNCHANGED <<specialists_df, topic_keywords, cluster_lookup, cache_other, phase, served,
                   request, response, threads>>

\* normalize_text handed what it returned
CallNormalizeTextAgain ==
    /\ call.fn = "normalize_text"
    /\ call.step = 1
    /\ NormalizeDone(NormalizeEach(normalized_text_cache, cache_other, call.results,
                                   call.use_cache), TRUE)
    /\ UNCHANGED <<specialists_df, topic_keywords, cluster_lookup, cache_other, phase, served,
                   request, response, threads>>

CallIsValidMedicalQuery ==
    /\ call.fn = "is_valid_medical_query"
    /\ call.step = 0
    /\ call' = [call EXCEPT !.results = <<is_valid_medical_query(call.args[1])>>, !.step = 1]
    /\ UNCHANGED <<specialists_df, topic_keywords, cluster_lookup, normalized_text_cache,
                   cache_other, phase, served, request, response, threads>>

CallScoreClustersByQuery ==
    /\ call.fn = "score_clusters_by_query"
    /\ call.step = 0
    /\ call' = [call EXCEPT
                   !.results = <<score_clusters_by_query(normalized_text_cache, call.args[1],
                                                         cluster_lookup)>>,
                   !.step = 1]
    /\ normalized_text_cache' = CacheAfter(normalized_text_cache, cache_other, call.args)
    /\ UNCHANGED <<specialists_df, topic_keywords, cluster_lookup, cache_other, phase, served,
                   request, response, threads>>

NextCall ==
    \/ CallNormalizeText
    \/ CallNormalizeTextAgain
    \/ CallIsValidMedicalQuery
    \/ CallScoreClustersByQuery

SpecCall == InitCall /\ [][NextCall]_vars

-----------------------------------------------------------------------------
(* Properties of the answers.                                              *)

Answered == response.status # 0
Ready == ~specialists_df.is_none /\ ~topic_keywords.is_none
EngineRan == Answered /\ response.engine.path # "none"
Results == response.body.results
Query == StrStrip(request.q)
Location == StrStrip(request.location)
ResultIds(results) == [i \in DOMAIN results |-> results[i].id]

\* C1: for every integer limit a search returns at most min(limit, 50)
\* records, never more than 50, and the limit that reaches the engine is
\* within 1..50.
C1_LimitClamped ==
    EngineRan =>
        /\ Len(Results) <= Min(request.limit, HardCap)
        /\ Len(Results) <= HardCap
        /\ response.max_results \in 1..HardCap

\* C2: when a location is given, every returned record has a normalized
\* state or a normalized city that contains the normalized location.
C2_LocationFilter ==
    (Answered /\ Location # <<>>) =>
        \A i \in DOMAIN Results :
            \/ Contains(Normalize(Results[i].state), Normalize(Location))
            \/ Contains(Normalize(Results[i].city), Normalize(Location))

C2_Witness ==
    /\ Answered /\ Location # <<>> /\ Results # <<>>
    /\ response.engine.path = "full"

\* every candidate of the fast path scored, none cut before the sort
AllScoredFast ==
    LET matching_clusters ==
            MatchingClusters(normalize_text(normalized_text_cache, Query), cluster_lookup)
        filtered == FastFiltered(normalized_text_cache, Location, matching_clusters,
                                 specialists_df.rows)
    IN  SortDesc([i \in DOMAIN filtered |->
                    [id |-> filtered[i].id, score |-> FastScore(filtered[i], matching_clusters)]])

\* every candidate of the full path scored, with no early exit
AllScoredFull ==
    LET top_clusters == Prefix(response.engine.cluster_scores, TopClusters)
        wk == get_weighted_keywords(normalized_text_cache, top_clusters,
                                    topic_keywords.items, Query)
        filtered == SortByRelevancy(FullFiltered(normalized_text_cache, Location,
                                                 top_clusters, specialists_df.rows))
    IN  SortDesc(RowLoop(normalized_text_cache, filtered, top_clusters, wk,
                         Len(filtered) + 1, <<>>).scores)

\* C3: the returned list is the first min(limit, 50) of all positively
\* scored candidates in descending score order (stated for limits >= 1).
C3_TopK ==
    (EngineRan /\ request.limit >= 1) =>
        LET k == Min(request.limit, HardCap) IN
        /\ response.engine.path = "fast" =>
              ResultIds(Results) = ResultIds(Prefix(AllScoredFast, k))
        /\ (response.engine.path = "full" /\ response.engine.cluster_scores # <<>>) =>
              ResultIds(Results) = ResultIds(Prefix(AllScoredFull, k))

\* C4: while the catalogue or the keyword index is not built, every search
\* request is answered with a structured failure, never with a success.
C4_NotReadyFails ==
    (Answered /\ ~Ready) => response.body.success = FALSE

C7_NoOutlierReturned ==
    Answered => \A i \in DOMAIN Results : Results[i].topic_cluster # -1

\* C8: for a query that qualifies for the fast path and for which the fast
\* path finds a cluster, the clusters the fast path selects are the clusters
\* the full path keeps.
C8_PathsAgree ==
    (Answered /\ Ready /\ is_valid_medical_query(Query)) =>
        LET nm == normalized_text_cache
            matching_clusters == MatchingClusters(normalize_text(nm, Query), cluster_lookup)
            top_clusters == Prefix(score_clusters_by_query(nm, Query, cluster_lookup), TopClusters)
        IN  (is_simple_query(nm, Query) /\ matching_clusters # <<>>) =>
                Range(matching_clusters) = {top_clusters[i].id : i \in DOMAIN top_clusters}

\* the lists score_clusters_by_query returns in this state, one per query
ScoredLists ==
    {score_clusters_by_query(normalized_text_cache, StrStrip(q), cluster_lookup) : q \in Queries}
    \cup {response.engine.cluster_scores}

\* C9: every entry score_clusters_by_query returns has a strictly positive
\* score and a cluster id other than -1.
C9_PositiveNoOutlier ==
    \A cs \in ScoredLists : \A i \in DOMAIN cs :
        RLess(RInt(0), cs[i].score) /\ cs[i].id # -1

C9_Witness ==
    /\ EngineRan /\ Len(response.engine.cluster_scores) >= 2
    /\ \E i \in DOMAIN topic_keywords.items : topic_keywords.items[i][1] = "-1"

\* C10 as stated: the list is in descending score order and clusters of
\* equal score are in ascending id order, whatever the insertion order.
C10_TiesByClusterId ==
    \A cs \in ScoredLists : \A i, j \in DOMAIN cs :
        i < j => \/ RLess(cs[j].score, cs[i].score)
                 \/ (cs[i].score = cs[j].score /\ cs[i].id < cs[j].id)

\* the position of a cluster in cluster_lookup
LookupIndex(id) == CHOOSE k \in DOMAIN cluster_lookup : cluster_lookup[k].id = id

\* C10 amended: the list is in descending score order and clusters of equal
\* score are in the order in which they were inserted into the index.
C10_TiesByInsertion ==
    \A cs \in ScoredLists : \A i, j \in DOMAIN cs :
        i < j => \/ RLess(cs[j].score, cs[i].score)
                 \/ (cs[i].score = cs[j].score /\ LookupIndex(cs[i].id) < LookupIndex(cs[j].id))

C10_Witness ==
    /\ EngineRan
    /\ \E i, j \in DOMAIN response.engine.cluster_scores :
          /\ i < j
          /\ response.engine.cluster_scores[i].score = response.engine.cluster_scores[j].score
          /\ response.engine.cluster_scores[i].id > response.engine.cluster_scores[j].id

\* C6: two identical requests run concurrently return identical ordered
\* result lists, under every interleaving and every filling of the cache.
C6_SameAnswer ==
    \A a, b \in Threads :
        (threads[a].pc = "done" /\ threads[b].pc = "done"
            /\ threads[a].request = threads[b].request) =>
        threads[a].response.body.results = threads[b].response.body.results

\* two threads answered the same request, one after a miss and one after a hit
C6_Witness ==
    \E a, b \in Threads :
        /\ a # b
        /\ threads[a].pc = "done" /\ threads[b].pc = "done"
        /\ threads[a].request = threads[b].request
        /\ threads[a].response.body.results # <<>>
        /\ threads[a].request.q \in DOMAIN normalized_text_cache

-----------------------------------------------------------------------------
(* The functions called on their own.                                      *)

NormalizedTwice == call.fn = "normalize_text" /\ call.step = 2

\* C11: normalize_text is idempotent: handed what it returned for any text, with
\* the cache on or off, it returns that text again
C11_Idempotent == NormalizedTwice => call.again = call.results

\* C12: the texts holding an eponym (parkinson, alzheimer, huntington, crohn) as
\* "T's", as "Ts" and as "T", in one casing and the same surroundings, normalize
\* to one string, and that string holds the eponym in lower case
C12_PossessiveInsensitive ==
    (call.fn = "normalize_text" /\ call.step >= 1 /\ call.args \in EponymForms) =>
        /\ call.results[1] = call.results[3]
        /\ call.results[2] = call.results[3]
        /\ \E T \in Eponyms : Contains(call.results[3], T)

\* the rejections the description of is_valid_medical_query lists, on the
\* trimmed lower-case query s
ListedRejection(s) ==
    \/ Len(s) < 3
    \/ s \in invalid_terms
    \/ 10 * Cardinality(Range(s)) < 4 * Len(s)
    \/ HasRepeat4(s)
    \/ AllIn(s, Vowels)
    \/ AllIn(s, Range(LowerLetters) \ Vowels)
    \/ HasRarePair(s)

\* C13: is_valid_medical_query returns False exactly for the queries whose
\* trimmed lower-case text is too short, is on the deny list, has a ratio of
\* distinct characters under 0.4, repeats a character four times in a row,
\* is made of vowels only, is made of consonants only, or has two rare
\* letters side by side; a vowel next to consonants is not rejected as such
C13_RejectsExactly ==
    (call.fn = "is_valid_medical_query" /\ call.step = 1) =>
        (call.results[1] = ~ListedRejection(StrStrip(StrLower(call.args[1]))))

\* lines 199-224 for every cluster, none skipped: the clusters of positive score
ScanAllClusters(query_norm, query_words, lookup) ==
    LET st[i \in 0..Len(lookup)] ==
            IF i = 0 THEN <<>>
            ELSE LET p == st[i - 1] IN
                 LET score == SumKeywordScores(query_norm, query_words,
                                               lookup[i].normalized_keywords) IN
                 IF KeepCluster(score)
                 THEN Append(p, [id |-> lookup[i].id, score |-> score])
                 ELSE p
    IN  st[Len(lookup)]

\* no cluster scores above the threshold of the early termination
NoneAboveThreshold(scored) ==
    \A i \in DOMAIN scored : ~RLess(RInt(HighConfidence), scored[i].score)

\* what C14 says of the query once normalized
SkipPreserves(query_norm, result, lookup) ==
    LET full == ScanAllClusters(query_norm, Range(StrSplit(query_norm)), lookup) IN
    NoneAboveThreshold(full) => result = SortClusterScores(full)

\* C14: when no cluster scores above 50, score_clusters_by_query returns the
\* list that scoring every cluster in full and dropping the zero scores gives:
\* the cheap test skips a cluster only when its full score is 0
C14_SkipPreserves ==
    (call.fn = "score_clusters_by_query" /\ call.step = 1) =>
        SkipPreserves(Normalize(call.args[1]), call.results[1], cluster_lookup)

-----------------------------------------------------------------------------
(* The cache under concurrent calls of normalize_text.                     *)

\* C15: however the steps of concurrent normalize_text calls on different
\* texts interleave, the cache holds at most 10,000 entries and every value
\* in it is the normalization of its key, so no entry is ever replaced by a
\* different value
C15_CacheSafe ==
    /\ CacheLen(normalized_text_cache, cache_other) <= CacheCap
    /\ \A t \in DOMAIN normalized_text_cache : normalized_text_cache[t] = Normalize(t)

====
